---- MODULE Spec2Model ----
(***************************************************************************)
(* LeastSqFitter (episimlab/fit/llsq.py): the least-squares fitting loop.  *)
(*                                                                         *)
(* A Fitter holds a fixed configuration (observed data, guess, model, step *)
(* clock, config path, optimizer options).  calc_residual runs the model   *)
(* once for a parameter vector, pulls the 'Ih' compartment out of the      *)
(* output counts, sums the stratifying axes away, asserts that a pure time *)
(* series is left and subtracts the observed data.  fit() hands            *)
(* calc_residual to scipy.optimize.least_squares.                          *)
(*                                                                         *)
(* Labelled arrays (xarray.DataArray) are records                          *)
(*     [dims   : sequence of dimension names,                              *)
(*      coords : dimension name -> sequence of labels,                     *)
(*      vals   : index tuple (one label per dimension) -> integer]         *)
(* and the operations on them (.loc, .sum, arithmetic with inner-join      *)
(* alignment) are computed on that representation.                         *)
(***************************************************************************)
EXTENDS Integers, Sequences, FiniteSets, TLC

VARIABLES
    fitter,     \* the attrs fields of the LeastSqFitter instance
    soln,       \* self.soln: set by fit() only
    pc,         \* position of fit(): "idle", "optimizing", "returned", "raised"
    fit_err,    \* the exception that left fit(), NoErr if none
    ev,         \* the calc_residual call in progress (its model run is running)
    last,       \* outcome of the last finished calc_residual call
    returned,   \* every (parameter, residual) pair a calc_residual call returned
    evals,      \* calc_residual invocations started
    runs,       \* model runs launched (.xsimlab.run invocations)
    running,    \* model runs in progress
    subs,       \* subtractions ih_pred - ih_actual performed
    opt,        \* state of the least_squares call made by fit()
    first_err   \* first exception an evaluation raised inside fit(), with the
                \* number of runs launched up to then

vars == <<fitter, soln, pc, fit_err, ev, last, returned, evals, runs, running,
          subs, opt, first_err>>

(***************************************************************************)
(* Bounds of the model.                                                    *)
(***************************************************************************)
\* number of time steps of the step clock
NSteps == 3
\* the parameter (beta) domain is 1..MaxBeta
MaxBeta == 2
\* direct calc_residual calls made by the caller before fit()
MaxDirect == 2
\* objective evaluations least_squares makes within one fit()
MaxEvals == 2

Betas == 1..MaxBeta

(***************************************************************************)
(* Sequences.                                                              *)
(***************************************************************************)
Range(s) == {s[i] : i \in 1..Len(s)}

PosOf(s, x) == CHOOSE i \in 1..Len(s) : s[i] = x

Without(s, i) == [j \in 1..(Len(s) - 1) |-> IF j < i THEN s[j] ELSE s[j + 1]]

InsertAt(s, i, x) ==
    [j \in 1..(Len(s) + 1) |-> IF j < i THEN s[j] ELSE IF j = i THEN x ELSE s[j - 1]]

(***************************************************************************)
(* Labelled arrays.                                                        *)
(***************************************************************************)
RECURSIVE Indices(_, _)
Indices(dims, coords) ==
    IF dims = <<>> THEN {<<>>}
    ELSE {<<l>> \o rest : l \in Range(coords[Head(dims)]),
                          rest \in Indices(Tail(dims), coords)}

NoDA == [dims |-> <<>>, coords |-> <<>>, vals |-> <<>>]

NoErr == [type |-> "none", origin |-> "none"]

Raise(type, origin) == [ok |-> FALSE, da |-> NoDA, err |-> [type |-> type, origin |-> origin]]

Ok(da) == [ok |-> TRUE, da |-> da, err |-> NoErr]

\* da.loc[{dim: label}]: the slice at `label`, the dimension dropped.  An
\* unknown dimension is a ValueError, an absent label a KeyError.
Loc(da, dim, label) ==
    IF dim \notin Range(da.dims) THEN Raise("ValueError", "loc")
    ELSE IF label \notin Range(da.coords[dim]) THEN Raise("KeyError", "loc")
    ELSE LET pos == PosOf(da.dims, dim)
             nd  == Without(da.dims, pos)
             nc  == [d \in Range(nd) |-> da.coords[d]]
         IN  Ok([dims |-> nd, coords |-> nc,
                 vals |-> [idx \in Indices(nd, nc) |-> da.vals[InsertAt(idx, pos, label)]]])

RECURSIVE SumOver(_, _, _, _)
SumOver(vals, idx, pos, labels) ==
    IF labels = <<>> THEN 0
    ELSE vals[InsertAt(idx, pos, Head(labels))] + SumOver(vals, idx, pos, Tail(labels))

\* da.sum(dim=dim) for one dimension of da
SumDim(da, dim) ==
    LET pos == PosOf(da.dims, dim)
        nd  == Without(da.dims, pos)
        nc  == [d \in Range(nd) |-> da.coords[d]]
    IN  [dims |-> nd, coords |-> nc,
         vals |-> [idx \in Indices(nd, nc) |-> SumOver(da.vals, idx, pos, da.coords[dim])]]

RECURSIVE SumDims(_, _)
SumDims(da, dimlist) ==
    IF dimlist = <<>> THEN da
    ELSE SumDims(SumDim(da, Head(dimlist)), Tail(dimlist))

\* da.sum(dim=[...]): a dimension that da does not have is a ValueError
Sum(da, dimlist) ==
    IF ~(Range(dimlist) \subseteq Range(da.dims)) THEN Raise("ValueError", "sum")
    ELSE Ok(SumDims(da, dimlist))

Project(idx, dims, sub) == [j \in 1..Len(sub) |-> idx[PosOf(dims, sub[j])]]

\* a - b on labelled arrays: the dimensions are broadcast by name and a shared
\* dimension is aligned on its labels by an inner join (xarray's default
\* arithmetic_join): only labels present on both sides are kept.
Minus(a, b) ==
    LET InA(d) == d \in Range(a.dims)
        NotInA(d) == d \notin Range(a.dims)
        nd == a.dims \o SelectSeq(b.dims, NotInA)
        nc == [d \in Range(nd) |->
                 IF d \in Range(a.dims) /\ d \in Range(b.dims)
                 THEN LET InB(l) == l \in Range(b.coords[d])
                      IN  SelectSeq(a.coords[d], InB)
                 ELSE IF d \in Range(a.dims) THEN a.coords[d] ELSE b.coords[d]]
    IN  [dims |-> nd, coords |-> nc,
         vals |-> [idx \in Indices(nd, nc) |->
                     a.vals[Project(idx, nd, a.dims)] - b.vals[Project(idx, nd, b.dims)]]]

(***************************************************************************)
(* The Fitter's configuration.                                             *)
(***************************************************************************)
\* the default step clock: a regular range of time stamps, numbered 1..NSteps
DefaultStepClock == [i \in 1..NSteps |-> i]

\* dimensions of the counts array (ApplyCountsDelta.COUNTS_DIMS)
COUNTS_DIMS == <<"vertex", "age_group", "risk_group", "compartment">>

ModelCoords ==
    [vertex      |-> <<0, 1>>,
     age_group   |-> <<"0-4", "5-17">>,
     risk_group  |-> <<"low", "high">>,
     compartment |-> <<"S", "Ia", "Ih">>,
     variant     |-> <<"a", "b">>]

\* the inputs calc_residual binds
BoundInputs == {"read_config__config_fp", "foi__beta"}

\* the model the default configuration is written for
StdModel ==
    [input_vars  |-> BoundInputs,
     counts_dims |-> COUNTS_DIMS,
     coords      |-> ModelCoords]

\* models a caller can hand to the Fitter: the standard one, one without an
\* 'Ih' compartment, one whose counts carry a further axis, one whose counts
\* lack the vertex axis, and one with an input that calc_residual does not bind
Models ==
    { StdModel,
      [StdModel EXCEPT !.coords = [ModelCoords EXCEPT !.compartment = <<"S", "I", "R">>]],
      [StdModel EXCEPT !.counts_dims = COUNTS_DIMS \o <<"variant">>],
      [StdModel EXCEPT !.counts_dims = <<"age_group", "risk_group", "compartment">>],
      [StdModel EXCEPT !.input_vars = BoundInputs \cup {"setup_sto__sto_toggle"}] }

\* an observed series: one value per time stamp of its own time axis
Observed(steps, profile) ==
    [dims   |-> <<"step">>,
     coords |-> [d \in {"step"} |-> steps],
     vals   |-> [idx \in {<<t>> : t \in Range(steps)} |-> 10 * profile + idx[1]]]

\* time axes of the observed series: that of the step clock, a shorter one, one
\* of the same length shifted by a step, and a longer one
ObservedSteps ==
    { DefaultStepClock,
      [i \in 1..(NSteps - 1) |-> i],
      [i \in 1..NSteps |-> i + 1],
      [i \in 1..(NSteps + 1) |-> i] }

KwNone == [k \in {} |-> 0]

\* optimizer options a caller supplies in ls_kwargs; a tolerance 1e-n is
\* written n
LsKwargs == { KwNone, "max_nfev" :> 1, "ftol" :> 6, "xtol" :> 6 }

Fitters ==
    { [data       |-> Observed(steps, profile),
       guess      |-> g,
       model      |-> m,
       dep_var    |-> "beta",
       step_clock |-> DefaultStepClock,
       verbosity  |-> 0,
       ls_kwargs  |-> kw,
       config_fp  |-> "tests/config/example_v1.yaml"] :
      steps \in ObservedSteps, profile \in 1..2, g \in Betas, m \in Models,
      kw \in LsKwargs }

(***************************************************************************)
(* The simulation run.                                                     *)
(***************************************************************************)
\* the clock is built one step short
get_in_ds_short_clock(self, dep_vars) ==
    LET beta == dep_vars[1]
    IN  [model       |-> self.model,
         clocks      |-> [step |-> SubSeq(self.step_clock, 1, Len(self.step_clock) - 1)],
         input_vars  |-> [read_config__config_fp |-> self.config_fp,
                          foi__beta |-> beta],
         output_vars |-> [apply_counts_delta__counts |-> "step"]]

\* the run is warm-started: the previous evaluation's parameter is carried over
get_in_ds_warm(self, dep_vars) ==
    LET beta == dep_vars[1] + (IF last.kind = "residual" THEN last.dep_vars[1] ELSE 0)
    IN  [model       |-> self.model,
         clocks      |-> [step |-> self.step_clock],
         input_vars  |-> [read_config__config_fp |-> self.config_fp,
                          foi__beta |-> beta],
         output_vars |-> [apply_counts_delta__counts |-> "step"]]

get_in_ds(self, dep_vars) ==
    LET beta == dep_vars[1]
    IN  [model       |-> self.model,
         clocks      |-> [step |-> self.step_clock],
         input_vars  |-> [read_config__config_fp |-> self.config_fp,
                          foi__beta |-> beta],
         output_vars |-> [apply_counts_delta__counts |-> "step"]]

RECURSIVE PosSum(_, _, _)
PosSum(dims, coords, idx) ==
    IF dims = <<>> THEN 0
    ELSE PosOf(coords[Head(dims)], Head(idx)) + PosSum(Tail(dims), coords, Tail(idx))

\* The counts a run produces: a deterministic function of the inputs.  The
\* value grows with beta along the time axis, differs between compartments
\* and differs along every stratifying axis.
SimCounts(in_ds, dims, coords, idx) ==
    LET t == PosOf(coords["step"], idx[PosOf(dims, "step")])
        c == PosOf(coords["compartment"], idx[PosOf(dims, "compartment")])
    IN  in_ds.input_vars.foi__beta * t * c + PosSum(dims, coords, idx)

\* in_ds.xsimlab.run(model=...): the output variable apply_counts_delta__counts,
\* saved on the clock named in output_vars.  A model input without a binding
\* is a KeyError.
RunModel(in_ds) ==
    IF ~(in_ds.model.input_vars \subseteq DOMAIN in_ds.input_vars)
    THEN Raise("KeyError", "run")
    ELSE LET clock == in_ds.output_vars.apply_counts_delta__counts
             nd == <<clock>> \o in_ds.model.counts_dims
             nc == [d \in Range(nd) |->
                      IF d = clock THEN in_ds.clocks[clock] ELSE in_ds.model.coords[d]]
         IN  Ok([dims |-> nd, coords |-> nc,
                 vals |-> [idx \in Indices(nd, nc) |-> SimCounts(in_ds, nd, nc, idx)]])

get_out_ds(self, dep_vars) == RunModel(get_in_ds(self, dep_vars))

(***************************************************************************)
(* calc_residual.                                                          *)
(***************************************************************************)
TargetCompartment == "Ih"

StratifyingDims == <<"age_group", "risk_group", "vertex">>

\* an absent compartment label falls back to the first compartment
ExtractTargetLenient(counts) ==
    LET label == IF TargetCompartment \in Range(counts.coords["compartment"])
                 THEN TargetCompartment
                 ELSE Head(counts.coords["compartment"])
        sel == Loc(counts, "compartment", label)
    IN  IF ~sel.ok THEN sel ELSE Sum(sel.da, StratifyingDims)

\* .loc[dict(compartment='Ih')].sum(dim=['age_group', 'risk_group', 'vertex'])
ExtractTarget(counts) ==
    LET sel == Loc(counts, "compartment", TargetCompartment)
    IN  IF ~sel.ok THEN sel ELSE Sum(sel.da, StratifyingDims)

\* the assertions are left out
ShapeUnchecked(ih_pred) == TRUE

\* the two assertions on ih_pred
ShapeAsserted(ih_pred) ==
    /\ Len(ih_pred.dims) = 1
    /\ "step" \in Range(ih_pred.dims)

\* the operands are swapped
ResidualReversed(ih_pred, ih_actual) == Minus(ih_actual, ih_pred)

\* resi = ih_pred - ih_actual
Residual(ih_pred, ih_actual) == Minus(ih_pred, ih_actual)

Failed(err, extracted, pred_dims) ==
    [kind |-> "error", err |-> err, extracted |-> extracted, pred_dims |-> pred_dims,
     subtracted |-> FALSE, resi |-> NoDA]

\* The outcome of one call: the residual it returns or the exception it
\* raises, with what the call reached on the way.
calc_residual(self, dep_vars, ih_actual) ==
    LET out == get_out_ds(self, dep_vars)
    IN  IF ~out.ok THEN Failed(out.err, FALSE, <<>>)
        ELSE LET ext == ExtractTarget(out.da)
             IN  IF ~ext.ok THEN Failed(ext.err, FALSE, <<>>)
                 ELSE LET ih_pred == ext.da
                      IN  IF ~ShapeAsserted(ih_pred)
                          THEN Failed([type |-> "AssertionError", origin |-> "assert"],
                                      TRUE, ih_pred.dims)
                          ELSE [kind |-> "residual", err |-> NoErr, extracted |-> TRUE,
                                pred_dims |-> ih_pred.dims, subtracted |-> TRUE,
                                resi |-> Residual(ih_pred, ih_actual)]

(***************************************************************************)
(* The least_squares call and the state machine.                           *)
(***************************************************************************)
NoSoln == [stored |-> FALSE, x |-> 0, status |-> 0, nfev |-> 0]

NoEval == [active |-> FALSE, dep_vars |-> <<>>, caller |-> "none"]

NoOutcome ==
    [kind |-> "none", err |-> NoErr, extracted |-> FALSE, pred_dims |-> <<>>,
     subtracted |-> FALSE, resi |-> NoDA, dep_vars |-> <<>>, caller |-> "none"]

NoOpt == [started |-> FALSE, x0 |-> 0, x |-> 0, cost |-> 0, nfev |-> 0, kwargs |-> KwNone]

\* the keyword arguments fit() writes out in its call of least_squares; the
\* tolerance 1e-8 is written 8
FitKeywords(self) ==
    [fun     |-> 0,
     x0      |-> self.guess,
     xtol    |-> 8,
     verbose |-> self.verbosity,
     args    |-> 0]

\* f(k1=v1, ..., **extra): a keyword given twice is a TypeError raised by the
\* call itself, before the callee runs
CallWithKeywords(explicit, extra) ==
    IF (DOMAIN explicit) \cap (DOMAIN extra) # {}
    THEN [ok |-> FALSE, kwargs |-> KwNone, err |-> [type |-> "TypeError", origin |-> "call"]]
    ELSE [ok |-> TRUE, kwargs |-> extra @@ explicit, err |-> NoErr]

RECURSIVE SumSquares(_, _)
SumSquares(vals, idxs) ==
    IF idxs = {} THEN 0
    ELSE LET i == CHOOSE j \in idxs : TRUE
         IN  vals[i] * vals[i] + SumSquares(vals, idxs \ {i})

\* the cost least_squares minimises
Cost(resi) == SumSquares(resi.vals, DOMAIN resi.vals)

Init ==
    /\ fitter \in Fitters
    /\ soln = NoSoln
    /\ pc = "idle"
    /\ fit_err = NoErr
    /\ ev = NoEval
    /\ last = NoOutcome
    /\ returned = {}
    /\ evals = 0
    /\ runs = 0
    /\ running = 0
    /\ subs = 0
    /\ opt = NoOpt
    /\ first_err = [err |-> NoErr, runs |-> 0]

\* calc_residual keeps a cache: a parameter vector already evaluated launches
\* no run
EvalStartCached(dep_vars, caller) ==
    /\ ~ev.active
    /\ ev' = [active |-> TRUE, dep_vars |-> dep_vars, caller |-> caller]
    /\ evals' = evals + 1
    /\ LET hit == \E e \in returned : e[1] = dep_vars
       IN  /\ runs' = IF hit THEN runs ELSE runs + 1
           /\ running' = running + 1
    /\ UNCHANGED <<fitter, soln, pc, fit_err, last, returned, subs, opt, first_err>>

\* calc_residual is entered and launches its model run
EvalStart(dep_vars, caller) ==
    /\ ~ev.active
    /\ ev' = [active |-> TRUE, dep_vars |-> dep_vars, caller |-> caller]
    /\ evals' = evals + 1
    /\ runs' = runs + 1
    /\ running' = running + 1
    /\ UNCHANGED <<fitter, soln, pc, fit_err, last, returned, subs, opt, first_err>>

\* the caller evaluates the residual directly
CallCalcResidual ==
    /\ pc = "idle"
    /\ evals < MaxDirect
    /\ \E p \in Betas : EvalStart(<<p>>, "user")

\* fit() calls least_squares
FitCall ==
    /\ pc = "idle"
    /\ ~ev.active
    /\ LET call == CallWithKeywords(FitKeywords(fitter), fitter.ls_kwargs)
       IN  IF call.ok
           THEN /\ pc' = "optimizing"
                /\ opt' = [started |-> TRUE, x0 |-> call.kwargs["x0"],
                           x |-> call.kwargs["x0"], cost |-> 0, nfev |-> 0,
                           kwargs |-> call.kwargs]
                /\ UNCHANGED fit_err
           ELSE /\ pc' = "raised"
                /\ fit_err' = call.err
                /\ UNCHANGED opt
    /\ UNCHANGED <<fitter, soln, ev, last, returned, evals, runs, running, subs, first_err>>

MayEvaluate ==
    /\ opt.nfev < MaxEvals
    /\ "max_nfev" \in DOMAIN opt.kwargs => opt.nfev < opt.kwargs["max_nfev"]

\* least_squares evaluates the objective: at x0 first, then wherever it likes
OptEvaluate ==
    /\ pc = "optimizing"
    /\ MayEvaluate
    /\ \E p \in Betas :
          /\ opt.nfev = 0 => p = opt.x0
          /\ EvalStart(<<p>>, "fit")

\* least_squares swallows an exception of its objective and goes on
FitAfterEvalRetry(o) ==
    /\ opt' = [opt EXCEPT !.nfev = opt.nfev + 1]
    /\ UNCHANGED <<pc, fit_err>>

\* What the least_squares call does when its objective comes back: an
\* exception is not caught, it leaves least_squares and fit(); a residual is
\* counted and kept as the iterate if its cost is lower.
FitAfterEval(o) ==
    IF o.kind = "error"
    THEN /\ pc' = "raised"
         /\ fit_err' = o.err
         /\ UNCHANGED opt
    ELSE /\ opt' = LET c == Cost(o.resi)
                   IN  IF opt.nfev = 0 \/ c < opt.cost
                       THEN [opt EXCEPT !.x = ev.dep_vars[1], !.cost = c,
                                        !.nfev = opt.nfev + 1]
                       ELSE [opt EXCEPT !.nfev = opt.nfev + 1]
         /\ UNCHANGED <<pc, fit_err>>

\* the model run ends and calc_residual returns or raises
EvalFinish ==
    /\ ev.active
    /\ \E o \in {calc_residual(fitter, ev.dep_vars, fitter.data)} :
           /\ last' = [kind |-> o.kind, err |-> o.err, extracted |-> o.extracted,
                       pred_dims |-> o.pred_dims, subtracted |-> o.subtracted,
                       resi |-> o.resi, dep_vars |-> ev.dep_vars, caller |-> ev.caller]
           /\ subs' = IF o.subtracted THEN subs + 1 ELSE subs
           /\ returned' = IF o.kind = "residual"
                          THEN returned \cup {<<ev.dep_vars, o.resi>>}
                          ELSE returned
           /\ first_err' = IF ev.caller = "fit" /\ o.kind = "error" /\ first_err.err = NoErr
                           THEN [err |-> o.err, runs |-> runs]
                           ELSE first_err
           /\ IF ev.caller = "fit"
              THEN FitAfterEval(o)
              ELSE UNCHANGED <<pc, fit_err, opt>>
    /\ ev' = NoEval
    /\ running' = running - 1
    /\ UNCHANGED <<fitter, soln, evals, runs>>

\* least_squares stops: status 0 when the evaluation limit is reached, 1..4
\* when one of its tolerances is met; fit() stores and returns the result
OptStop ==
    /\ pc = "optimizing"
    /\ ~ev.active
    /\ opt.nfev >= 1
    /\ \E status \in 0..4 :
          /\ status = 0 => /\ "max_nfev" \in DOMAIN opt.kwargs
                           /\ opt.nfev >= opt.kwargs["max_nfev"]
          /\ soln' = [stored |-> TRUE, x |-> opt.x, status |-> status, nfev |-> opt.nfev]
    /\ pc' = "returned"
    /\ UNCHANGED <<fitter, fit_err, ev, last, returned, evals, runs, running, subs,
                   opt, first_err>>

Next == CallCalcResidual \/ FitCall \/ OptEvaluate \/ EvalFinish \/ OptStop

Spec == Init /\ [][Next]_vars

(***************************************************************************)
(* Properties.                                                             *)
(***************************************************************************)
RECURSIVE SetSum(_, _)
SetSum(f, S) ==
    IF S = {} THEN 0
    ELSE LET i == CHOOSE j \in S : TRUE
         IN  f[i] + SetSum(f, S \ {i})

\* the counts of a run at time stamp t in compartment 'Ih', added up over
\* every other axis
PredictedAt(counts, t) ==
    SetSum(counts.vals,
           {idx \in DOMAIN counts.vals :
               /\ idx[PosOf(counts.dims, "step")] = t
               /\ idx[PosOf(counts.dims, "compartment")] = "Ih"})

\* a series over time stamps 1..Len(values)
Series(values) ==
    [dims   |-> <<"step">>,
     coords |-> [d \in {"step"} |-> [i \in 1..Len(values) |-> i]],
     vals   |-> [idx \in {<<i>> : i \in 1..Len(values)} |-> values[idx[1]]]]

\* the observed series is on the time axis of the simulation
Aligned == fitter.data.coords["step"] = fitter.step_clock

\* C1: when the observed series is aligned with the step clock, the residual
\* a call returns is, at every time stamp t, the run's counts at t in
\* compartment 'Ih' summed over age_group, risk_group and vertex, minus the
\* observed value at t; predicted [110,140,120] against observed
\* [100,150,130] gives [10,-10,-10].
C1_ResidualIsPredictedMinusObserved ==
    /\ Residual(Series(<<110, 140, 120>>), Series(<<100, 150, 130>>))
         = Series(<<10, -10, -10>>)
    /\ (last.kind = "residual" /\ Aligned) =>
          LET counts == get_out_ds(fitter, last.dep_vars).da
          IN  /\ last.resi.dims = <<"step">>
              /\ last.resi.coords["step"] = fitter.step_clock
              /\ \A t \in Range(fitter.step_clock) :
                    last.resi.vals[<<t>>]
                       = PredictedAt(counts, t) - fitter.data.vals[<<t>>]

C1_Witness ==
    /\ last.kind = "residual"
    /\ Aligned
    /\ last.dep_vars = <<MaxBeta>>
    /\ \E t \in Range(fitter.step_clock) : last.resi.vals[<<t>>] # 0

\* C2: a call whose observed series has another length than the step clock
\* ends in an exception, never in a residual.
C2_MismatchedLengthRaises ==
    (last.kind # "none" /\ Len(fitter.data.coords["step"]) # Len(fitter.step_clock))
        => last.kind = "error"

\* the observed series has exactly the time stamps of the step clock
ValidConfiguration == Aligned

\* C3: under a valid configuration a returned residual has as many entries as
\* the observed series.
C3_ResidualLengthIsObservedLength ==
    (last.kind = "residual" /\ ValidConfiguration) =>
        /\ Len(last.resi.coords["step"]) = Len(fitter.data.coords["step"])
        /\ Cardinality(DOMAIN last.resi.vals) = Cardinality(DOMAIN fitter.data.vals)

C3_Witness ==
    /\ last.kind = "residual"
    /\ ValidConfiguration
    /\ Len(last.resi.coords["step"]) = NSteps
    /\ last.caller = "fit"

\* C4: a returned residual comes from an extracted series whose only axis is
\* 'step'; an extracted series of any other shape ends the call in an
\* AssertionError, without a subtraction and without a residual.
C4_ShapeAssertedBeforeResidual ==
    /\ last.kind = "residual" => (last.extracted /\ last.pred_dims = <<"step">>)
    /\ (last.extracted /\ last.pred_dims # <<"step">>) =>
          /\ last.kind = "error"
          /\ last.err.type = "AssertionError"
          /\ ~last.subtracted
          /\ last.resi = NoDA

C4_Witness ==
    /\ last.extracted
    /\ last.pred_dims = <<"step", "variant">>
    /\ last.err.type = "AssertionError"

\* C5: the runs launched are as many as the calc_residual calls started: none
\* at construction, one per call (a repeated parameter vector included), and
\* never two runs at a time.
C5_OneRunPerEvaluation ==
    /\ runs = evals
    /\ running \in {0, 1}
    /\ (running = 1) <=> ev.active

C5_Witness ==
    /\ evals = 2
    /\ ev.active
    /\ ev.caller = "fit"
    /\ last.kind = "residual"
    /\ ev.dep_vars = last.dep_vars

\* C6: once an evaluation inside fit() has raised, fit() has raised that same
\* exception, no run has been launched since, and no solution is stored.
C6_EvaluationErrorAbortsFit ==
    first_err.err # NoErr =>
        /\ pc = "raised"
        /\ fit_err = first_err.err
        /\ last.err = first_err.err
        /\ ~soln.stored
        /\ runs = first_err.runs
        /\ ~ev.active

C6_Witness ==
    /\ first_err.err = [type |-> "KeyError", origin |-> "run"]
    /\ pc = "raised"
    /\ opt.nfev = 0

\* C7: with no 'Ih' label on the compartment axis a call ends in the lookup
\* error (KeyError) of the selection; no subtraction is performed and no
\* residual is returned.
C7_AbsentCompartmentRaises ==
    (last.kind # "none" /\ "Ih" \notin Range(fitter.model.coords["compartment"])) =>
        /\ last.kind = "error"
        /\ last.err = [type |-> "KeyError", origin |-> "loc"]
        /\ ~last.extracted
        /\ ~last.subtracted
        /\ last.resi = NoDA
        /\ subs = 0
        /\ returned = {}

C7_Witness ==
    /\ "Ih" \notin Range(fitter.model.coords["compartment"])
    /\ last.err = [type |-> "KeyError", origin |-> "loc"]
    /\ last.caller = "fit"
    /\ pc = "raised"

\* C8: no step changes a configuration field of the Fitter, and the residuals
\* returned so far are a function of the parameter vector alone: two calls
\* with the same vector have returned the same residual, whatever was
\* evaluated in between.
C8_ResidualDependsOnParameterOnly ==
    [][ /\ fitter' = fitter
        /\ \A e1 \in returned', e2 \in returned' : e1[1] = e2[1] => e1[2] = e2[2]
      ]_vars

C8_Witness ==
    /\ evals = 3
    /\ ~ev.active
    /\ last.kind = "residual"
    /\ Cardinality(returned) = 2

\* C9: fit() never fails because of the options in ls_kwargs, every option
\* of ls_kwargs is in effect in the least_squares call with the caller's
\* value, and without options the tolerance xtol is 1e-8.
C9_CallerOptionsInEffect ==
    pc # "idle" =>
        /\ fit_err.origin # "call"
        /\ opt.started
        /\ \A k \in DOMAIN fitter.ls_kwargs :
              /\ k \in DOMAIN opt.kwargs
              /\ opt.kwargs[k] = fitter.ls_kwargs[k]
        /\ fitter.ls_kwargs = KwNone => opt.kwargs["xtol"] = 8

\* C10: when fit() has ended and no evaluation has raised, it has returned
\* the solution of an optimizer started at the guess, and that solution is
\* stored as soln.
C10_FitReturnsSolution ==
    (pc \in {"returned", "raised"} /\ first_err.err = NoErr) =>
        /\ pc = "returned"
        /\ opt.x0 = fitter.guess
        /\ soln.stored
        /\ soln.x = opt.x
        /\ soln.nfev = opt.nfev

====
